---- MODULE Spec2Model ----
(***************************************************************************)
(* Verification model of the automated math solver's orchestration layer:  *)
(* SchedulerService (backend/services/scheduler_service.py) together with  *)
(* the parts of GitHubService it drives.  Each calling context (the main   *)
(* thread, an HTTP request thread, an APScheduler pool thread) is a        *)
(* process with a program counter; shared state is the service's fields.   *)
(***************************************************************************)
EXTENDS Integers, Sequences, FiniteSets, TLC

\* ------------------------------------------------------------------ bounds
MaxClock == 1      \* the logical clock runs 0..MaxClock
MaxCommits == 2    \* commits pushed to the repository during a behaviour
MaxCommitsConc == 2 \* the same, in behaviours with several threads
MaxCommitsItem == 1 \* the same, in behaviours over every fate of an item
MaxRuns == 2       \* entries into check_and_process_new_problems
MaxRunsSched == 3  \* the same, in behaviours of the periodic job alone
MaxCallbacks == 2  \* callbacks registered in all
MaxTextLen == 2    \* words of a text handed to the validator
MaxScoreLen == 4   \* words of a text that is scored
MaxSolverLen == 3  \* pieces of a text handed to the solver

\* ------------------------------------------------------- program constants
\* Python's None in a timestamp field (timestamps are >= 0)
None == -1

\* one hour ("checks last hour"), in ticks of the clock
Hour == 1

\* Python's None in last_error
NoError == "None"

\* max_instances=1 of the periodic job
max_instances == 1

\* the events of SchedulerService.callbacks
Events == {"on_new_problem", "on_solution_complete", "on_error"}

\* the calling contexts: the thread that owns the service (CLI / start / stop),
\* a web request thread, and the scheduler's pool threads that run the job
Callers == {"main", "http"}
Workers == {"pool1", "pool2"}
Threads == Callers \cup Workers

\* files of the upload folder that commits may add or modify
Files == {"p1.txt", "p2.txt"}

VARIABLES
    is_running,       \* SchedulerService.is_running
    stats,            \* SchedulerService.stats
    sched,            \* state of the BackgroundScheduler: job registered, started
    last_check_time,  \* GitHubService.last_check_time
    commits,          \* the repository's commits on the branch, oldest first
    now,              \* wall clock
    pc,               \* per thread: position in the code
    loc,              \* per thread: locals of the run in flight
    hist,             \* history: what happened so far (not read by the program)
    callbacks,        \* SchedulerService.callbacks: per event, the registered callbacks
    text,             \* the text handed to ContentValidator
    verdict,          \* what the validator returned for it (<<>>: not called yet)
    published,        \* the solution files stored in the remote repository
    file_sha          \* per solution path, the version of its content (0: no file)

\* the fields only add_callback and the validator's direct callers touch
registry == <<callbacks, text, verdict>>

\* the solutions folder of the remote repository
repository == <<published, file_sha>>

vars == <<is_running, stats, sched, last_check_time, commits, now, pc, loc, hist,
          callbacks, text, verdict,
          published, file_sha>>

\* --------------------------------------------------------------- helpers
\* SchedulerService.__init__: the statistics dictionary
InitStats ==
    [total_runs |-> 0, successful_runs |-> 0, failed_runs |-> 0,
     problems_solved |-> 0, problems_failed |-> 0,
     last_run |-> None, last_success |-> None, last_error |-> NoError]

\* locals of a thread that is not inside check_and_process_new_problems
NoLocals ==
    [origin |-> "none", run_start_time |-> 0, snap |-> InitStats, since |-> 0,
     new_files |-> <<>>, i |-> 0, processed_count |-> 0, error_count |-> 0,
     results |-> <<>>, tmp |-> 0, fired |-> <<>>, calls |-> <<>>,
     summary |-> <<>>, trace |-> <<>>, ran |-> <<>>,
     mark |-> 0, fate |-> [step |-> 0, how |-> "ok", also |-> {}], stamp |-> 0,
     cb |-> 0, exists |-> FALSE, sha |-> 0,
     status |-> [is_running |-> FALSE, next_run |-> "None", stats |-> InitStats]]

RunPcs == {"run_start", "run_read", "run_count", "run_stamp", "discover", "since",
           "listing", "mark", "discover_done", "item", "item_calls", "item_check",
           "item_store", "item_create", "item_done", "item_read", "item_count", "item_event",
           "final", "final_count", "final_stamp", "fail_count", "fail_error"}

\* the threads that are inside the body of check_and_process_new_problems
ActiveRuns == {t \in Threads : pc[t] \in RunPcs}

\* instances of the periodic job that are executing (the instance lasts
\* until the job function has returned to the pool thread)
RunningInstances == {t \in Workers : pc[t] # "idle"}

InitService ==
    /\ is_running = FALSE
    /\ stats = InitStats
    /\ sched = [job |-> FALSE, started |-> FALSE]
    /\ last_check_time = None
    /\ commits = <<>>
    /\ now = 0
    /\ pc = [t \in Threads |-> "idle"]
    /\ loc = [t \in Threads |-> NoLocals]
    /\ hist = [started |-> 0, finished |-> 0, sched_runs |-> 0, free_ticks |-> 0,
               busy_ticks |-> 0, sum_processed |-> 0, sum_errors |-> 0,
               noops |-> [start |-> FALSE, stop |-> FALSE], returned |-> {}]
    /\ callbacks = [e \in Events |-> <<>>]
    /\ verdict = <<>>
    /\ published = {}
    /\ file_sha = [path \in {} |-> 0]

Init == InitService /\ text = <<>>

\* ------------------------------------------------- the per-item pipeline
\* The collaborator calls process_single_problem makes for one item, in order.
Steps ==
    <<"download_file", "validate_file_safety", "validate_mathematical_content",
      "_extract_text_from_file", "solve_problem", "upload_solution",
      "update_main_page", "send_solution_notification">>

\* What the environment does to one item: which call (0: none) is the first
\* that does not succeed, whether it returns a negative result or raises, and
\* which of the calls made after it return a negative result too (the calls
\* after update_main_page are still made, so send_solution_notification can
\* fail after it).  Only upload_solution can raise: it catches
\* GithubException alone, every other collaborator catches Exception and
\* returns its negative result.
Fates ==
    {[step |-> 0, how |-> "ok", also |-> {}]}
    \cup {[step |-> k, how |-> "false", also |-> {}] : k \in 1..8}
    \cup {[step |-> 7, how |-> "false", also |-> {8}]}
    \cup {[step |-> 6, how |-> "raise", also |-> {}]}

\* MathematicalSolver.solve_problem's result, as far as the scheduler reads it
SolutionResult(file_name, ok) ==
    [success |-> ok, file_name |-> file_name,
     error_message |-> IF ok THEN "" ELSE "solver error"]

\* the calls made for an item of fate f, each with its outcome: the code
\* returns at the first negative result of calls 1..6 and ignores the value
\* returned by update_main_page and send_solution_notification
CallsMade(f) ==
    LET last == IF f.step \in 1..6 THEN f.step ELSE Len(Steps)
    IN [k \in 1..last |->
          [op |-> Steps[k],
           outcome |-> IF k = f.step THEN f.how
                       ELSE IF k \in f.also THEN "false" ELSE "ok"]]

\* whether process_single_problem tests the value a call returned
ReturnValueChecked(k) == k \in 1..6

ItemFails(f) == f.step # 0 /\ (ReturnValueChecked(f.step) \/ f.how = "raise")

\* lines 332-340: what process_single_problem returns when an exception
\* reaches its handler
ProcessingError(file_name) ==
    [success |-> FALSE, file_name |-> file_name, error |-> "Processing error"]

\* lines 283-289: what process_single_problem returns when solve_problem's
\* result is no success
SolveFailureItem(file_name, solution_result) ==
    [success |-> FALSE, file_name |-> file_name,
     error |-> solution_result.error_message,
     solution_attempt |-> solution_result]

\* Path(problem_file).stem, github_service.py line 196
Stem(problem_file) ==
    IF problem_file = "p1.txt" THEN "p1"
    ELSE IF problem_file = "p2.txt" THEN "p2"
    ELSE problem_file

\* github_service.py lines 193-200: the path upload_solution writes, from
\* the folder, the stem of the problem file and the time of the call
SolutionPath(problem_file, timestamp) ==
    [folder |-> "solutions", name |-> Stem(problem_file),
     timestamp |-> timestamp, format |-> "md"]

\* upload_solution, lines 180-232, on the repository's solution files: the
\* file at the path is updated when there is one and created otherwise
UploadSolution(solutions, problem_file, timestamp) ==
    solutions \cup {SolutionPath(problem_file, timestamp)}

\* lines 206-226, what the remote answers to the write that follows
\* get_contents: update_file is taken when the sha it sends is the file's,
\* create_file when there is no file at the path
WriteAccepted(shas, path, exists, sha) ==
    IF exists THEN path \in DOMAIN shas /\ shas[path] = sha
    ELSE path \notin DOMAIN shas

\* scheduler_service.py line 311: the solution_url process_single_problem
\* builds, from the file name and the time at which it builds it
SolutionUrl(file_name, timestamp) ==
    [folder |-> "solutions", name |-> file_name,
     timestamp |-> timestamp, format |-> "md"]

\* whether upload_solution stored a file for an item of fate f
Uploaded(f) == \E k \in DOMAIN CallsMade(f) :
    CallsMade(f)[k].op = "upload_solution" /\ CallsMade(f)[k].outcome = "ok"

\* the dictionary process_single_problem returns
ItemResult(file_name, f, timestamp) ==
    IF ~ItemFails(f) THEN
        [success |-> TRUE, file_name |-> file_name,
         solution_result |-> SolutionResult(file_name, TRUE),
         solution_info |-> [problem_name |-> file_name, status |-> "Solved Successfully",
                            solution_url |-> SolutionUrl(file_name, timestamp)],
         message |-> "Problem solved and solution uploaded successfully"]
    ELSE IF f.how = "raise" THEN
        ProcessingError(file_name)
    ELSE IF f.step = 1 THEN
        [success |-> FALSE, file_name |-> file_name,
         error |-> "Failed to download file from GitHub"]
    ELSE IF f.step = 2 THEN
        [success |-> FALSE, file_name |-> file_name,
         error |-> "File safety validation failed"]
    ELSE IF f.step = 3 THEN
        [success |-> FALSE, file_name |-> file_name,
         error |-> "Mathematical content validation failed"]
    ELSE IF f.step = 4 THEN
        [success |-> FALSE, file_name |-> file_name,
         error |-> "Could not extract text content from file"]
    ELSE IF f.step = 5 THEN
        SolveFailureItem(file_name, SolutionResult(file_name, FALSE))
    ELSE
        [success |-> FALSE, file_name |-> file_name,
         error |-> "Failed to upload solution to GitHub",
         solution_data |-> SolutionResult(file_name, TRUE)]

\* lines 180-185: the result the loop builds when an exception reaches it
LoopError(file_name) ==
    [success |-> FALSE, file_name |-> file_name, error |-> "callback error"]

\* lines 239-320: what process_single_problem does for an item of fate f, in
\* order: on_new_problem is triggered, then the collaborators are called
ProcessTrace(f) ==
    <<"on_new_problem">> \o [k \in 1..Len(CallsMade(f)) |-> CallsMade(f)[k].op]

\* the event check_and_process_new_problems fires for a result
TerminalEvent_mut(result) == "on_error"
TerminalEvent(result) ==
    IF result.success THEN "on_solution_complete" ELSE "on_error"

\* ------------------------------------------------------------- callbacks
\* what a registered callback does when it is called
Behaviours == {"ok", "raise"}

\* line 447: `except Exception` around each callback
CallbackErrorCaught_mut == FALSE
CallbackErrorCaught == TRUE

\* _trigger_callbacks, lines 444-448, one turn of the for loop over the list
\* `cbs` after k callbacks were called: the loop is over ("done"), the next
\* callback is called and returns or is caught ("called"), or its exception
\* leaves _trigger_callbacks ("raised")
TriggerNext(cbs, k) ==
    IF k >= Len(cbs) THEN "done"
    ELSE IF cbs[k + 1] = "raise" /\ ~CallbackErrorCaught THEN "raised"
    ELSE "called"

\* the whole loop from callback k on, over a list that does not change
\* meanwhile: `ran` is how many callbacks were called, `raised` whether an
\* exception left _trigger_callbacks
RECURSIVE TriggerFrom(_, _)
TriggerFrom(cbs, k) ==
    IF TriggerNext(cbs, k - 1) = "done" THEN [ran |-> Len(cbs), raised |-> FALSE]
    ELSE IF TriggerNext(cbs, k - 1) = "raised" THEN [ran |-> k, raised |-> TRUE]
    ELSE TriggerFrom(cbs, k + 1)

\* the locals of a run after one turn of _trigger_callbacks for `event`:
\* the first turn notes that the event fired, every call is counted
Triggered(l, event, turn) ==
    LET called == IF turn = "done" THEN 0 ELSE 1
    IN [l EXCEPT !.fired = IF l.cb = 0 THEN Append(@, <<event, l.i>>) ELSE @,
                 !.ran = IF l.cb = 0 THEN Append(@, called)
                         ELSE [@ EXCEPT ![Len(@)] = @ + called],
                 !.cb = IF turn = "called" THEN @ + 1 ELSE 0]

\* ------------------------------------------------------------- discovery
\* GitHubService.get_new_files_since: the start of the query window
SinceTime(lct, clock) == IF lct = None THEN clock ELSE lct

\* lines 103-123: the file_info of commit k, when it is dated since `since`
FileInfo(cs, since, k) ==
    IF cs[k].date >= since
    THEN <<[name |-> cs[k].file, sha |-> k, commit_date |-> cs[k].date]>>
    ELSE <<>>

\* the items of commits k, k-1, .. 1 that are dated since `since`
RECURSIVE NewFilesFrom(_, _, _)
NewFilesFrom(cs, since, k) ==
    IF k = 0 THEN <<>>
    ELSE FileInfo(cs, since, k) \o NewFilesFrom(cs, since, k - 1)

\* the list get_new_files_since returns: the API lists the newest commit first
NewFilesSince(cs, since) == NewFilesFrom(cs, since, Len(cs))

\* ------------------------------------------------------------- summaries
NoFilesSummary ==
    [success |-> TRUE, new_files |-> 0, processed |-> 0, errors |-> 0,
     message |-> "No new files to process"]

RunSummary(l) ==
    [success |-> TRUE, new_files |-> Len(l.new_files),
     processed |-> l.processed_count, errors |-> l.error_count,
     results |-> l.results]

FailureSummary(msg) ==
    [success |-> FALSE, error |-> msg, new_files |-> 0, processed |-> 0,
     errors |-> 1]

DiscoveryError == "GithubException"

\* ------------------------------------------------- statistics bookkeeping
\* `self.stats[k] += 1` is a read followed by a write: `read` is the value
\* the thread read, possibly stale when another thread wrote in between.

\* line 138: total_runs += 1, the store
CountRun(st, read) == [st EXCEPT !.total_runs = read + 1]

\* line 139: last_run = run_start_time
StampRun(st, start) == [st EXCEPT !.last_run = start]

\* the counter lines 169-176 increment for a result
ItemCounter(result) ==
    IF result.success THEN "problems_solved" ELSE "problems_failed"

\* lines 171 / 175: problems_solved += 1 or problems_failed += 1
CountItem_mut(st, result, read) ==
    [st EXCEPT !.problems_solved = read + 1]
CountItem(st, result, read) ==
    [st EXCEPT ![ItemCounter(result)] = read + 1]

\* the counter lines 191-195 increment at the end of a run
RunCounter(error_count) ==
    IF error_count = 0 THEN "successful_runs" ELSE "failed_runs"

\* line 191 or 194: successful_runs += 1 or failed_runs += 1, the store
CountOutcome(st, error_count, read) ==
    [st EXCEPT ![RunCounter(error_count)] = read + 1]

\* line 192: last_success = run_start_time
StampSuccess(st, start) == [st EXCEPT !.last_success = start]

\* line 212: failed_runs += 1, the store
CountDiscoveryFailure(st, read) == [st EXCEPT !.failed_runs = read + 1]

\* line 213: last_error = str(e)
StoreLastError_mut(st, msg) == st
StoreLastError(st, msg) == [st EXCEPT !.last_error = msg]

\* line 164: the for loop goes on to the next item whatever the last result was
LoopContinues(i, n, result) == i < n

\* ----------------------------------------------------------------- actions
\* a thread calls check_and_process_new_problems.  `track` says whether the
\* statistics at entry are remembered (history, for the single-caller
\* contract).
Enter(t, origin, track) ==
    /\ pc' = [pc EXCEPT ![t] = "run_start"]
    /\ loc' = [loc EXCEPT ![t] =
                  [NoLocals EXCEPT !.origin = origin,
                                   !.snap = IF track THEN stats ELSE InitStats]]

\* check_and_process_new_problems returns `summary`: the body is over, the
\* caller is about to receive the value
Leave(t, summary) ==
    /\ pc' = [pc EXCEPT ![t] = "returned"]
    /\ loc' = [loc EXCEPT ![t].summary = <<summary>>]
    /\ hist' = [hist EXCEPT !.finished = @ + 1,
                            !.sum_processed = @ + summary.processed,
                            !.sum_errors = @ + (IF summary.success THEN summary.errors ELSE 0)]

\* the eager run that a start_scheduler under way is going to make
EagerRunAhead ==
    IF pc["main"] \in {"start_add", "start_start", "start_flag", "start_eager"} THEN 1 ELSE 0

\* start_scheduler, line 86: is_running is read and found false
StartScheduler(t) ==
    /\ t = "main" /\ pc[t] = "idle"
    /\ ~is_running
    /\ hist.started < MaxRuns
    /\ pc' = [pc EXCEPT ![t] = "start_add"]
    /\ UNCHANGED <<registry, repository, is_running, stats, sched, last_check_time, commits, now,
                   loc, hist>>

\* lines 92-99: the periodic job is registered
StartAddJob(t) ==
    /\ pc[t] = "start_add"
    /\ sched' = [sched EXCEPT !.job = TRUE]
    /\ pc' = [pc EXCEPT ![t] = "start_start"]
    /\ UNCHANGED <<registry, repository, is_running, stats, last_check_time, commits, now, loc, hist>>

\* line 102: scheduler.start() starts the scheduler's thread; from here on
\* the interval trigger fires
StartStart(t) ==
    /\ pc[t] = "start_start"
    /\ sched' = [sched EXCEPT !.started = TRUE]
    /\ pc' = [pc EXCEPT ![t] = "start_flag"]
    /\ UNCHANGED <<registry, repository, is_running, stats, last_check_time, commits, now, loc, hist>>

\* line 103: is_running = True
StartFlag_mut(t) ==
    /\ pc[t] = "start_flag"
    /\ pc' = [pc EXCEPT ![t] = "start_eager"]
    /\ UNCHANGED <<registry, repository, is_running, stats, sched, last_check_time, commits, now,
                   loc, hist>>
StartFlag(t) ==
    /\ pc[t] = "start_flag"
    /\ is_running' = TRUE
    /\ pc' = [pc EXCEPT ![t] = "start_eager"]
    /\ UNCHANGED <<registry, repository, stats, sched, last_check_time, commits, now, loc, hist>>

\* line 108: the eager call, in the calling thread
StartEager(t) ==
    /\ pc[t] = "start_eager"
    /\ Enter(t, "eager", FALSE)
    /\ hist' = [hist EXCEPT !.started = @ + 1]
    /\ UNCHANGED <<registry, repository, is_running, stats, sched, last_check_time, commits, now>>

\* start_scheduler while running: lines 86-88, a warning and a return.
\* `track` says whether the call is remembered (history).
StartWhileRunning_mut(t, track) ==
    /\ t = "main" /\ pc[t] = "idle"
    /\ is_running
    /\ hist.started < MaxRuns
    /\ sched' = [job |-> TRUE, started |-> TRUE]
    /\ Enter(t, "eager", FALSE)
    /\ hist' = [hist EXCEPT !.started = @ + 1, !.noops.start = @ \/ track]
    /\ UNCHANGED <<registry, repository, is_running, stats, last_check_time, commits, now>>
StartWhileRunning(t, track) ==
    /\ t = "main" /\ pc[t] = "idle"
    /\ is_running
    /\ hist' = [hist EXCEPT !.noops.start = @ \/ track]
    /\ UNCHANGED <<registry, repository, is_running, stats, sched, last_check_time, commits, now,
                   pc, loc>>

\* stop_scheduler, line 116: is_running is read and found true
StopScheduler(t) ==
    /\ t = "main" /\ pc[t] = "idle"
    /\ is_running
    /\ pc' = [pc EXCEPT ![t] = "stop_shutdown"]
    /\ UNCHANGED <<registry, repository, is_running, stats, sched, last_check_time, commits, now,
                   loc, hist>>

\* line 121: scheduler.shutdown(wait=True) stops the trigger at once and then
\* blocks until the job instance in flight is done
StopShutdown(t) ==
    /\ pc[t] = "stop_shutdown"
    /\ sched' = [sched EXCEPT !.started = FALSE]
    /\ pc' = [pc EXCEPT ![t] = "stop_wait"]
    /\ UNCHANGED <<registry, repository, is_running, stats, last_check_time, commits, now, loc, hist>>

\* shutdown returned: line 122
StopDone(t) ==
    /\ pc[t] = "stop_wait"
    /\ RunningInstances = {}
    /\ is_running' = FALSE
    /\ pc' = [pc EXCEPT ![t] = "idle"]
    /\ UNCHANGED <<registry, repository, stats, sched, last_check_time, commits, now, loc, hist>>

\* stop_scheduler while stopped: lines 116-118, a warning and a return
StopWhileStopped(t, track) ==
    /\ t = "main" /\ pc[t] = "idle"
    /\ ~is_running
    /\ hist' = [hist EXCEPT !.noops.stop = @ \/ track]
    /\ UNCHANGED <<registry, repository, is_running, stats, sched, last_check_time, commits, now,
                   pc, loc>>

\* manual_trigger: calls check_and_process_new_problems in the calling thread
ManualTrigger(t, track) ==
    /\ t \in Callers /\ pc[t] = "idle"
    /\ hist.started + EagerRunAhead < MaxRuns
    /\ Enter(t, "manual", track)
    /\ hist' = [hist EXCEPT !.started = @ + 1]
    /\ UNCHANGED <<registry, repository, is_running, stats, sched, last_check_time, commits, now>>

\* the pool thread a submitted job gets: the first idle one
FreeWorker ==
    IF pc["pool1"] = "idle" THEN "pool1"
    ELSE IF pc["pool2"] = "idle" THEN "pool2" ELSE "none"

\* the interval trigger fires and the job is submitted to a free pool thread:
\* fewer than max_instances instances of it are executing.  The bound only
\* counts instances of the job: the run start_scheduler makes at line 108 and
\* the runs of manual_trigger are no instances of it.  hist.free_ticks counts
\* the ticks that fire while no run at all is under way.
TickRun(t, budget) ==
    /\ sched.job /\ sched.started
    /\ Cardinality(RunningInstances) < max_instances
    /\ t = FreeWorker
    /\ hist.started + EagerRunAhead < budget
    /\ Enter(t, "scheduled", FALSE)
    /\ hist' = [hist EXCEPT !.started = @ + 1,
                            !.sched_runs = @ + 1,
                            !.free_ticks = @ + (IF ActiveRuns = {} THEN 1 ELSE 0)]
    /\ UNCHANGED <<registry, repository, is_running, stats, sched, last_check_time, commits, now>>

\* the interval trigger fires while max_instances instances are executing: the
\* run is skipped, nothing is queued for later
TickSkipped ==
    /\ sched.job /\ sched.started
    /\ Cardinality(RunningInstances) >= max_instances
    /\ hist' = [hist EXCEPT !.busy_ticks = 1]
    /\ UNCHANGED <<registry, repository, is_running, stats, sched, last_check_time, commits, now, pc, loc>>

\* line 137: the start time is taken
RunStart(t) ==
    /\ pc[t] = "run_start"
    /\ loc' = [loc EXCEPT ![t].run_start_time = now]
    /\ pc' = [pc EXCEPT ![t] = "run_read"]
    /\ UNCHANGED <<registry, repository, is_running, stats, sched, last_check_time, commits, now, hist>>

\* line 138: total_runs is read
RunRead(t) ==
    /\ pc[t] = "run_read"
    /\ loc' = [loc EXCEPT ![t].tmp = stats.total_runs]
    /\ pc' = [pc EXCEPT ![t] = "run_count"]
    /\ UNCHANGED <<registry, repository, is_running, stats, sched, last_check_time, commits, now, hist>>

\* line 138: total_runs is written
RunCount(t) ==
    /\ pc[t] = "run_count"
    /\ stats' = CountRun(stats, loc[t].tmp)
    /\ pc' = [pc EXCEPT ![t] = "run_stamp"]
    /\ UNCHANGED <<registry, repository, is_running, sched, last_check_time, commits, now, loc, hist>>

\* line 139: last_run is written
RunStamp(t) ==
    /\ pc[t] = "run_stamp"
    /\ stats' = StampRun(stats, loc[t].run_start_time)
    /\ pc' = [pc EXCEPT ![t] = "discover"]
    /\ UNCHANGED <<registry, repository, is_running, sched, last_check_time, commits, now, loc, hist>>

\* get_new_files_since, line 92: last_check_time is read; when it holds a
\* time the window starts there
DiscoverSince(t) ==
    /\ pc[t] = "discover"
    /\ loc' = [loc EXCEPT ![t].since = last_check_time]
    /\ pc' = [pc EXCEPT ![t] = IF last_check_time = None THEN "since" ELSE "listing"]
    /\ UNCHANGED <<registry, repository, is_running, stats, sched, last_check_time, commits, now, hist>>

\* line 92, on the first call (last_check_time was None): the clock is read
\* and the window starts at that time
DiscoverNow(t) ==
    /\ pc[t] = "since"
    /\ loc' = [loc EXCEPT ![t].since = SinceTime(loc[t].since, now)]
    /\ pc' = [pc EXCEPT ![t] = "listing"]
    /\ UNCHANGED <<registry, repository, is_running, stats, sched, last_check_time, commits, now, hist>>

\* lines 94-123: the remote repository answers with the commits since the
\* start of the window
Discover(t) ==
    /\ pc[t] = "listing"
    /\ loc' = [loc EXCEPT ![t].new_files = NewFilesSince(commits, loc[t].since)]
    /\ pc' = [pc EXCEPT ![t] = "mark"]
    /\ UNCHANGED <<registry, repository, is_running, stats, sched, last_check_time, commits, now, hist>>

\* the remote call raises (lines 128-130); the handler at line 211 starts:
\* failed_runs is read
DiscoverRaises(t) ==
    /\ pc[t] = "listing"
    /\ loc' = [loc EXCEPT ![t].tmp = stats.failed_runs]
    /\ pc' = [pc EXCEPT ![t] = "fail_count"]
    /\ UNCHANGED <<registry, repository, is_running, stats, sched, last_check_time, commits, now, hist>>

\* line 212: failed_runs is written
FailCount_mut(t) ==
    /\ pc[t] = "fail_count"
    /\ stats' = CountDiscoveryFailure(stats, loc[t].tmp)
    /\ pc' = [pc EXCEPT ![t] = "fail_error"]
    /\ sched' = [sched EXCEPT !.job = FALSE]
    /\ UNCHANGED <<registry, repository, is_running, last_check_time, commits, now, loc, hist>>
FailCount(t) ==
    /\ pc[t] = "fail_count"
    /\ stats' = CountDiscoveryFailure(stats, loc[t].tmp)
    /\ pc' = [pc EXCEPT ![t] = "fail_error"]
    /\ UNCHANGED <<registry, repository, is_running, sched, last_check_time, commits, now, loc, hist>>

\* lines 213-224: last_error is written and the failure summary returned
FailError(t) ==
    /\ pc[t] = "fail_error"
    /\ stats' = StoreLastError(stats, DiscoveryError)
    /\ Leave(t, FailureSummary(DiscoveryError))
    /\ UNCHANGED <<registry, repository, is_running, sched, last_check_time, commits, now>>

\* get_new_files_since, line 125: the clock is read for the watermark
WatermarkRead(t) ==
    /\ pc[t] = "mark"
    /\ loc' = [loc EXCEPT ![t].mark = now]
    /\ pc' = [pc EXCEPT ![t] = "discover_done"]
    /\ UNCHANGED <<registry, repository, is_running, stats, sched, last_check_time, commits, now, hist>>

\* get_new_files_since, lines 125-126, and lines 147-155: the watermark is
\* stored; with no new file the run returns at once
DiscoverDoneEmpty(t) ==
    /\ pc[t] = "discover_done"
    /\ loc[t].new_files = <<>>
    /\ last_check_time' = loc[t].mark
    /\ Leave(t, NoFilesSummary)
    /\ UNCHANGED <<registry, repository, is_running, stats, sched, commits, now>>

\* get_new_files_since, lines 125-126, then line 157: the watermark is
\* stored and the loop starts
DiscoverDoneFiles(t) ==
    /\ pc[t] = "discover_done"
    /\ loc[t].new_files # <<>>
    /\ last_check_time' = loc[t].mark
    /\ loc' = [loc EXCEPT ![t].i = 1]
    /\ pc' = [pc EXCEPT ![t] = "item"]
    /\ hist' = [hist EXCEPT !.returned =
                   @ \cup {loc[t].new_files[i].sha : i \in DOMAIN loc[t].new_files}]
    /\ UNCHANGED <<registry, repository, is_running, stats, sched, commits, now>>

\* what the loop keeps of an item that process_single_problem has returned
\* `result` for (lines 166-174): the result is appended and counted locally
ItemReturned(l, result, calls, trace) ==
    [l EXCEPT !.results = Append(@, result),
              !.calls = Append(@, calls),
              !.trace = Append(@, trace),
              !.processed_count = @ + (IF result.success THEN 1 ELSE 0),
              !.error_count = @ + (IF result.success THEN 0 ELSE 1)]

\* line 241, one turn of _trigger_callbacks('on_new_problem'): the list of
\* callbacks is read where the loop stands, and the next one is called.
\* Should an exception leave _trigger_callbacks, the handler of lines
\* 332-340 returns a failure of the item.
NewProblem(t) ==
    /\ pc[t] = "item"
    /\ LET l == loc[t]
           turn == TriggerNext(callbacks["on_new_problem"], l.cb)
           after == Triggered(l, "on_new_problem", turn)
       IN IF turn = "raised"
          THEN /\ loc' = [loc EXCEPT ![t] =
                           ItemReturned(after, ProcessingError(l.new_files[l.i].name),
                                        <<>>, <<"on_new_problem">>)]
               /\ pc' = [pc EXCEPT ![t] = "item_read"]
          ELSE /\ loc' = [loc EXCEPT ![t] = after]
               /\ pc' = [pc EXCEPT ![t] = IF turn = "done" THEN "item_calls" ELSE "item"]
    /\ UNCHANGED <<registry, repository, is_running, stats, sched, last_check_time, commits, now, hist>>

\* lines 245-297, process_single_problem for item i from download_file up
\* to upload_solution: the collaborators are called as the item's fate
\* allows.  When upload_solution is reached and the remote answers, it takes
\* its timestamp (github_service.py line 195); otherwise
\* process_single_problem returns its result.
Item(t, fates) ==
    /\ pc[t] = "item_calls"
    /\ \E f \in fates :
         LET l == loc[t]
             name == l.new_files[l.i].name
         IN IF Uploaded(f)
            THEN /\ loc' = [loc EXCEPT ![t].fate = f, ![t].stamp = now]
                 /\ pc' = [pc EXCEPT ![t] = "item_check"]
            ELSE /\ loc' = [loc EXCEPT ![t] =
                             ItemReturned([l EXCEPT !.fate = f], ItemResult(name, f, now),
                                          CallsMade(f), ProcessTrace(f))]
                 /\ pc' = [pc EXCEPT ![t] = "item_read"]
    /\ UNCHANGED <<registry, repository, is_running, stats, sched, last_check_time, commits, now, hist>>

\* upload_solution, github_service.py lines 206-207: get_contents tells
\* whether there is a file at the path made with the timestamp, and its sha.
\* With a file the thread goes on to update_file; without one get_contents
\* raises GithubException and the thread is in the handler of line 219,
\* before create_file.
ItemCheck(t) ==
    /\ pc[t] = "item_check"
    /\ LET l == loc[t]
           path == SolutionPath(l.new_files[l.i].name, l.stamp)
       IN /\ loc' = [loc EXCEPT ![t].exists = path \in published,
                                ![t].sha = IF path \in published THEN file_sha[path] ELSE 0]
          /\ pc' = [pc EXCEPT ![t] = IF path \in published THEN "item_store"
                                     ELSE "item_create"]
    /\ UNCHANGED <<registry, repository, is_running, stats, sched, last_check_time, commits, now, hist>>

\* upload_solution, lines 209-219: update_file with the sha get_contents
\* gave.  When the remote takes the write the solution file is stored; when
\* it refuses, the GithubException is caught at line 219 and the thread
\* stands in the handler, before create_file.
ItemStore(t) ==
    /\ pc[t] = "item_store"
    /\ LET l == loc[t]
           name == l.new_files[l.i].name
           path == SolutionPath(name, l.stamp)
       IN IF WriteAccepted(file_sha, path, TRUE, l.sha)
          THEN /\ published' = UploadSolution(published, name, l.stamp)
               /\ file_sha' = [q \in UploadSolution(published, name, l.stamp) |->
                                  IF q = path THEN l.sha + 1 ELSE file_sha[q]]
               /\ pc' = [pc EXCEPT ![t] = "item_done"]
          ELSE /\ pc' = [pc EXCEPT ![t] = "item_create"]
               /\ UNCHANGED repository
    /\ UNCHANGED <<registry, is_running, stats, sched, last_check_time, commits, now, hist, loc>>

\* upload_solution, lines 219-232: create_file in the handler of line 219.
\* When the remote takes the write the solution file is stored; when it
\* refuses (there is a file at the path) the GithubException reaches line
\* 230, upload_solution returns False and the item fails at
\* scheduler_service.py lines 299-305.
ItemCreate(t) ==
    /\ pc[t] = "item_create"
    /\ LET l == loc[t]
           name == l.new_files[l.i].name
           path == SolutionPath(name, l.stamp)
           refused == [step |-> 6, how |-> "false", also |-> {}]
       IN IF WriteAccepted(file_sha, path, FALSE, 0)
          THEN /\ published' = UploadSolution(published, name, l.stamp)
               /\ file_sha' = [q \in UploadSolution(published, name, l.stamp) |->
                                  IF q = path THEN 1 ELSE file_sha[q]]
               /\ pc' = [pc EXCEPT ![t] = "item_done"]
               /\ UNCHANGED loc
          ELSE /\ loc' = [loc EXCEPT ![t] =
                           ItemReturned([l EXCEPT !.fate = refused],
                                        ItemResult(name, refused, l.stamp),
                                        CallsMade(refused), ProcessTrace(refused))]
               /\ pc' = [pc EXCEPT ![t] = "item_read"]
               /\ UNCHANGED repository
    /\ UNCHANGED <<registry, is_running, stats, sched, last_check_time, commits, now, hist>>

\* lines 307-330: the solution_url is built with the time of this moment,
\* the index page is updated, the notification sent and the result returned
ItemDone(t) ==
    /\ pc[t] = "item_done"
    /\ LET l == loc[t]
           name == l.new_files[l.i].name
       IN loc' = [loc EXCEPT ![t] =
                     ItemReturned(l, ItemResult(name, l.fate, now), CallsMade(l.fate),
                                  ProcessTrace(l.fate))]
    /\ pc' = [pc EXCEPT ![t] = "item_read"]
    /\ UNCHANGED <<registry, repository, is_running, stats, sched, last_check_time, commits, now, hist>>

\* line 171 or 175: problems_solved or problems_failed is read
ItemRead(t) ==
    /\ pc[t] = "item_read"
    /\ loc' = [loc EXCEPT ![t].tmp = stats[ItemCounter(loc[t].results[Len(loc[t].results)])]]
    /\ pc' = [pc EXCEPT ![t] = "item_count"]
    /\ UNCHANGED <<registry, repository, is_running, stats, sched, last_check_time, commits, now, hist>>

\* line 171 or 175: problems_solved or problems_failed is written
ItemCount(t) ==
    /\ pc[t] = "item_count"
    /\ stats' = CountItem(stats, loc[t].results[Len(loc[t].results)], loc[t].tmp)
    /\ pc' = [pc EXCEPT ![t] = "item_event"]
    /\ UNCHANGED <<registry, repository, is_running, sched, last_check_time, commits, now, loc, hist>>

\* line 172 or 176, one turn of _trigger_callbacks for the terminal event of
\* the item: the list of callbacks is read where the loop stands and the
\* next one is called; after the last one the for loop of line 164 goes to
\* the next item or ends.  Lines 178-188, should an exception leave
\* _trigger_callbacks: the item is counted as failed (again), an error
\* result is appended and on_error is triggered; an exception leaving that
\* call ends the loop in the handler of line 211.
ItemEvent(t) ==
    /\ pc[t] = "item_event"
    /\ LET l == loc[t]
           result == l.results[Len(l.results)]
           turn == TriggerNext(callbacks[TerminalEvent(result)], l.cb)
           after == Triggered(l, TerminalEvent(result), turn)
           next == IF LoopContinues(l.i, Len(l.new_files), result) THEN "item" ELSE "final"
           tr2 == TriggerFrom(callbacks["on_error"], 1)
       IN IF turn = "called"
          THEN /\ loc' = [loc EXCEPT ![t] = after]
               /\ UNCHANGED <<pc, stats>>
          ELSE IF turn = "done"
          THEN /\ loc' = [loc EXCEPT ![t] = [after EXCEPT !.i = @ + 1]]
               /\ pc' = [pc EXCEPT ![t] = next]
               /\ UNCHANGED stats
          ELSE /\ stats' = [stats EXCEPT !.problems_failed = @ + 1]
               /\ loc' = [loc EXCEPT ![t] =
                      [after EXCEPT
                          !.fired = Append(@, <<"on_error", l.i>>),
                          !.ran = Append(@, tr2.ran),
                          !.results = Append(@, LoopError(result.file_name)),
                          !.error_count = @ + 1,
                          !.tmp = IF tr2.raised THEN stats.failed_runs ELSE @,
                          !.i = @ + 1]]
               /\ pc' = [pc EXCEPT ![t] = IF tr2.raised THEN "fail_count" ELSE next]
    /\ UNCHANGED <<registry, repository, is_running, sched, last_check_time, commits, now, hist>>

\* line 191 or 194: the outcome counter is read
Final(t) ==
    /\ pc[t] = "final"
    /\ loc' = [loc EXCEPT ![t].tmp = stats[RunCounter(loc[t].error_count)]]
    /\ pc' = [pc EXCEPT ![t] = "final_count"]
    /\ UNCHANGED <<registry, repository, is_running, stats, sched, last_check_time, commits, now, hist>>

\* line 191 or 194: the outcome counter is written; lines 196-209, after a
\* run with an item error: the summary is returned
FinalCount(t) ==
    /\ pc[t] = "final_count"
    /\ stats' = CountOutcome(stats, loc[t].error_count, loc[t].tmp)
    /\ IF loc[t].error_count = 0
       THEN /\ pc' = [pc EXCEPT ![t] = "final_stamp"]
            /\ UNCHANGED <<loc, hist>>
       ELSE Leave(t, RunSummary(loc[t]))
    /\ UNCHANGED <<registry, repository, is_running, sched, last_check_time, commits, now>>

\* lines 192-209: last_success is written and the summary returned
FinalStamp(t) ==
    /\ pc[t] = "final_stamp"
    /\ stats' = StampSuccess(stats, loc[t].run_start_time)
    /\ Leave(t, RunSummary(loc[t]))
    /\ UNCHANGED <<registry, repository, is_running, sched, last_check_time, commits, now>>

\* the caller has the summary; the frame is gone
Return(t) ==
    /\ pc[t] = "returned"
    /\ pc' = [pc EXCEPT ![t] = "idle"]
    /\ loc' = [loc EXCEPT ![t] = NoLocals]
    /\ UNCHANGED <<registry, repository, is_running, stats, sched, last_check_time, commits, now, hist>>

\* add_callback, lines 428-440: a callback of behaviour b is registered for
\* event e (the caller does so between its calls of the service)
AddCallback(t, e, b) ==
    /\ pc[t] = "idle"
    /\ Len(callbacks["on_new_problem"]) + Len(callbacks["on_solution_complete"])
         + Len(callbacks["on_error"]) < MaxCallbacks
    /\ callbacks' = [callbacks EXCEPT ![e] = Append(@, b)]
    /\ UNCHANGED <<text, verdict, is_running, stats, sched, last_check_time, commits,
                   now, pc, loc, hist, repository>>

\* ------------------------------------------------------------- validator
\* ContentValidator.__init__: the keyword lists, as far as the texts below
\* can meet them
forbidden_keywords ==
    {"hack", "crack", "exploit", "malware", "virus", "password", "personal",
     "private", "confidential", "secret", "illegal", "violence", "weapon",
     "drug", "adult", "explicit"}

all_keywords == {"solve", "equation", "derivative", "matrix"}

\* the words texts are made of, and the letter cases a word is written in
Vocabulary == {"hack", "weapon", "solve", "equation", "the", "cat"}
Cases == {"lower", "upper", "title"}
Words == [word : Vocabulary, case : Cases]

\* the texts of at most n words
RECURSIVE TextsUpTo(_)
TextsUpTo(n) ==
    IF n = 0 THEN {<<>>}
    ELSE TextsUpTo(n - 1) \cup
         {Append(tx, w) : tx \in {x \in TextsUpTo(n - 1) : Len(x) = n - 1}, w \in Words}

\* str.lower(): every word in lower case
Lower_mut(tx) == tx
Lower(tx) == [k \in DOMAIN tx |-> [word |-> tx[k].word, case |-> "lower"]]

\* `keyword in text_lower`: the keyword, as written in the list, occurs
Occurrences(keyword, tx) ==
    Cardinality({k \in DOMAIN tx : tx[k] = [word |-> keyword, case |-> "lower"]})

\* _contains_forbidden_content, lines 218-235
ContainsForbiddenContent(tx) ==
    \E keyword \in forbidden_keywords : Occurrences(keyword, Lower(tx)) > 0

\* ten times the weight of a keyword, line 263: len(keyword) / 10.0 + 1.0
Weight10(keyword) ==
    IF keyword = "solve" THEN 15
    ELSE IF keyword = "equation" THEN 18
    ELSE IF keyword = "derivative" THEN 20
    ELSE 16

RECURSIVE SumWeights(_, _)
SumWeights(keywords, tx) ==
    IF keywords = {} THEN 0
    ELSE LET keyword == CHOOSE x \in keywords : TRUE
         IN Occurrences(keyword, tx) * Weight10(keyword)
            + SumWeights(keywords \ {keyword}, tx)

\* line 252, re.findall(r'\b\w+\b', ..): the words a piece of text counts for
WordCount(word) ==
    IF word = "+" THEN 0
    ELSE IF word \in {"x=1", "12x+5", "f(x)"} THEN 2
    ELSE 1

\* lines 267-282: the matches of the symbol patterns in a piece of text
SymbolCount(word) ==
    IF word = "12x+5" THEN 2
    ELSE IF word \in {"f(x)", "2x"} THEN 1
    ELSE 0

RECURSIVE SumOver(_, _)
SumOver(counts, k) == IF k = 0 THEN 0 ELSE counts[k] + SumOver(counts, k - 1)

\* len(words), line 252
TotalWords(tx) == SumOver([k \in DOMAIN tx |-> WordCount(tx[k].word)], Len(tx))

\* ten times total_score, line 285: the weighted keyword hits and two for
\* every symbol match; the symbol patterns are matched on the text as it
\* is written (line 281) and know lower-case letters only
TotalScore10(tx) ==
    SumWeights(all_keywords, Lower(tx))
    + 20 * SumOver([k \in DOMAIN tx |->
                     IF tx[k].case = "lower" THEN SymbolCount(tx[k].word) ELSE 0],
                   Len(tx))

\* line 288: min(.., 1.0), on a fraction
Cap_mut(num, den) == [num |-> num, den |-> den]
Cap(num, den) == IF num >= den THEN [num |-> 1, den |-> 1] ELSE [num |-> num, den |-> den]

\* _calculate_mathematical_score, lines 237-289, as a fraction: 0.0 for the
\* empty text and for a text without words, else
\* min(total_score / (len(words) * 0.5), 1.0)
MathematicalScore(tx) ==
    IF Len(tx) = 0 THEN [num |-> 0, den |-> 1]
    ELSE IF TotalWords(tx) = 0 THEN [num |-> 0, den |-> 1]
    ELSE Cap(TotalScore10(tx), 5 * TotalWords(tx))

\* the test of line 126: score < 0.1
ScoreBelowThreshold(tx) ==
    10 * MathematicalScore(tx).num < MathematicalScore(tx).den

\* the texts that are scored: a keyword, a plain word and a sign that is
\* no word
ScoreVocabulary == {"solve", "the", "+"}

RECURSIVE TextsOver(_, _)
TextsOver(words, n) ==
    IF n = 0 THEN {<<>>}
    ELSE TextsOver(words, n - 1) \cup
         {Append(tx, w) : tx \in {x \in TextsOver(words, n - 1) : Len(x) = n - 1},
                          w \in words}

\* _calculate_mathematical_score is called on the text
CalculateScore ==
    /\ verdict = <<>>
    /\ verdict' = <<[score |-> MathematicalScore(text)]>>
    /\ UNCHANGED <<callbacks, text, is_running, stats, sched, last_check_time, commits,
                   now, pc, loc, hist, repository>>

\* validate_mathematical_content_text (math_solver.py, lines 622-645)
ValidateMathematicalContentText(tx) ==
    IF Len(tx) = 0 THEN
        [is_valid |-> FALSE, reason |-> "Empty or whitespace-only content"]
    ELSE IF ContainsForbiddenContent(tx) THEN
        [is_valid |-> FALSE, reason |-> "Text contains inappropriate content"]
    ELSE IF ScoreBelowThreshold(tx) THEN
        [is_valid |-> FALSE, reason |-> "Insufficient mathematical content"]
    ELSE [is_valid |-> TRUE, reason |-> "Valid mathematical content"]

\* validate_mathematical_content, lines 94-136, for a file whose extracted
\* text is tx
ValidateMathematicalContent(tx) ==
    IF Len(tx) = 0 THEN
        [is_valid |-> FALSE, reason |-> "Could not extract text content from file"]
    ELSE IF ContainsForbiddenContent(tx) THEN
        [is_valid |-> FALSE, reason |-> "File contains inappropriate content"]
    ELSE IF ScoreBelowThreshold(tx) THEN
        [is_valid |-> FALSE, reason |-> "Insufficient mathematical content"]
    ELSE [is_valid |-> TRUE, reason |-> "Valid mathematical content"]

\* the validator is called on the text, directly or for a file that holds it
ValidateText ==
    /\ verdict = <<>>
    /\ verdict' = <<ValidateMathematicalContentText(text)>>
    /\ UNCHANGED <<callbacks, text, is_running, stats, sched, last_check_time, commits,
                   now, pc, loc, hist, repository>>

ValidateFile ==
    /\ verdict = <<>>
    /\ verdict' = <<ValidateMathematicalContent(text)>>
    /\ UNCHANGED <<callbacks, text, is_running, stats, sched, last_check_time, commits,
                   now, pc, loc, hist, repository>>

\* ---------------------------------------------------------------- solver
\* The texts handed to the solver are pieces joined by " ; ": no pattern of
\* the solver matches across a semicolon, and no piece holds a character
\* that _preprocess_text (lines 147-187) rewrites.
SolverVocabulary == {"solve", "derivative", "matrix", "x=1", "12x+5", "f(x)", "2x"}

\* __init__, lines 52-61: the categories in the order the dictionary lists them
problem_patterns ==
    <<"equation", "derivative", "integral", "limit", "matrix", "simplify", "graph",
      "optimization">>

\* the alternatives of each pattern, lines 53-60
PatternCues(problem_type) ==
    IF problem_type = "equation" THEN {"solve", "find", "calculate"}
    ELSE IF problem_type = "derivative" THEN {"derivative", "differentiate", "d/dx"}
    ELSE IF problem_type = "integral" THEN {"integral", "integrate"}
    ELSE IF problem_type = "limit" THEN {"limit", "lim", "approaches"}
    ELSE IF problem_type = "matrix" THEN {"matrix", "determinant", "eigenvalue", "system"}
    ELSE IF problem_type = "simplify" THEN {"simplify", "reduce", "factor"}
    ELSE IF problem_type = "graph" THEN {"graph", "plot", "sketch"}
    ELSE {"maximum", "minimum", "optimize", "extrema"}

\* '=' in a piece
HasEquals(word) == word = "x=1"

\* lines 49 and 207: a piece holds one of the letters of common_symbols
HasCommonSymbol(word) == word # "solve"

\* line 209: a piece holds one of + - * / ^
HasOperator(word) == word = "12x+5"

\* re.search(pattern, text_lower), line 204.  The equation pattern,
\* (?:solve|find|calculate)\s+.*?[=], wants its verb, white space after it
\* and an '=' further on; the other patterns want one of their words.
PatternFound(problem_type, tx) ==
    IF problem_type = "equation" THEN
        \E i \in DOMAIN tx : \E j \in DOMAIN tx :
            /\ i < j
            /\ tx[i].word \in PatternCues("equation")
            /\ HasEquals(tx[j].word)
    ELSE \E i \in DOMAIN tx : tx[i].word \in PatternCues(problem_type)

\* lines 202-204: the first category, from the k-th on, whose pattern is found
RECURSIVE FirstPattern(_, _)
FirstPattern(tx, k) ==
    IF k > Len(problem_patterns) THEN "none"
    ELSE IF PatternFound(problem_patterns[k], tx) THEN problem_patterns[k]
    ELSE FirstPattern(tx, k + 1)

\* _identify_problem_type, lines 189-212
IdentifyProblemType(tx) ==
    IF FirstPattern(tx, 1) # "none" THEN FirstPattern(tx, 1)
    ELSE IF /\ \E i \in DOMAIN tx : HasEquals(tx[i].word)
            /\ \E i \in DOMAIN tx : HasCommonSymbol(tx[i].word)
         THEN "equation"
    ELSE IF \E i \in DOMAIN tx : HasOperator(tx[i].word) THEN "simplify"
    ELSE "general"

\* line 227: the words re.sub deletes from the text
instruction_words ==
    {"solve", "find", "calculate", "determine", "compute", "evaluate", "simplify"}

\* lines 227-228: the pieces of the text once the instruction words are gone
RemoveInstructionWords(tx) ==
    [k \in DOMAIN tx |-> IF tx[k].word \in instruction_words THEN "" ELSE tx[k].word]

\* lines 241-246: the patterns tried when no equation was found, in order
fallback_patterns == <<"product", "general", "coefficient", "function">>

\* re.findall(pattern, ..) on one piece, each match stripped (lines 232-235,
\* 249-251).  No pattern matches in an empty piece.  (In the joined text the
\* general pattern also matches white space beside a semicolon; such a match
\* strips to the empty string, which the length test of lines 236 and 252
\* drops.)
FindAll(pattern, piece) ==
    IF piece = "" THEN <<>>
    ELSE IF pattern = "equation" THEN
        IF piece = "x=1" THEN <<"x=1">> ELSE <<>>
    ELSE IF pattern = "product" THEN <<>>
    ELSE IF pattern = "general" THEN
        IF piece = "x=1" THEN <<"x", "1">> ELSE <<piece>>
    ELSE IF pattern = "coefficient" THEN
        IF piece = "12x+5" THEN <<"12x">>
        ELSE IF piece = "2x" THEN <<"2x">>
        ELSE <<>>
    ELSE IF piece = "f(x)" THEN <<"f(x)">>
    ELSE <<>>

\* len(cleaned)
StrLen(str) ==
    IF str = "" THEN 0
    ELSE IF str \in {"x", "1"} THEN 1
    ELSE IF str = "2x" THEN 2
    ELSE IF str \in {"12x", "x=1"} THEN 3
    ELSE IF str = "f(x)" THEN 4
    ELSE IF str \in {"12x+5", "solve"} THEN 5
    ELSE IF str = "matrix" THEN 6
    ELSE 10

\* lines 236-237 and 252-253: a match is kept when it is longer than 2
RECURSIVE KeepLong(_)
KeepLong(matches) ==
    IF matches = <<>> THEN <<>>
    ELSE IF StrLen(Head(matches)) > 2 THEN <<Head(matches)>> \o KeepLong(Tail(matches))
    ELSE KeepLong(Tail(matches))

\* the matches of one pattern in the whole text that are kept, in text order
RECURSIVE MatchesFrom(_, _, _)
MatchesFrom(pattern, pieces, k) ==
    IF k > Len(pieces) THEN <<>>
    ELSE KeepLong(FindAll(pattern, pieces[k])) \o MatchesFrom(pattern, pieces, k + 1)

\* lines 248-253: the loop over the fallback patterns, from the k-th on; it
\* goes through every pattern
RECURSIVE FallbackFrom(_, _)
FallbackFrom(pieces, k) ==
    IF k > Len(fallback_patterns) THEN <<>>
    ELSE MatchesFrom(fallback_patterns[k], pieces, 1) \o FallbackFrom(pieces, k + 1)

\* lines 224-253: the list expressions before the duplicates are removed
Candidates(tx) ==
    LET pieces == RemoveInstructionWords(tx)
        equations == MatchesFrom("equation", pieces, 1)
    IN IF equations # <<>> THEN equations ELSE FallbackFrom(pieces, 1)

\* lines 255-261: duplicates removed, the order kept
Unique_mut(expressions) == expressions
RECURSIVE Unique(_)
Unique(expressions) ==
    IF expressions = <<>> THEN <<>>
    ELSE LET front == Unique(SubSeq(expressions, 1, Len(expressions) - 1))
             last == expressions[Len(expressions)]
         IN IF \E i \in DOMAIN front : front[i] = last THEN front
            ELSE Append(front, last)

\* _extract_expressions, lines 214-263
ExtractExpressions(tx) == Unique(Candidates(tx))

\* what sympy makes of the expressions it is given: a solution, none (no
\* free symbol, no root), or an exception
Outcomes == {"solved", "nothing", "raises"}

\* _solve_by_type, lines 274-308, and the solvers it calls (310-529 and
\* 581-591): the dictionary returned, as far as solve_problem reads it.
\* Every failure carries an 'error'; a solution carries none, and line 120
\* reads it as ''.  _solve_equation only hands the expressions with an '='
\* to sympy; _solve_simplify and _solve_general keep a result for every
\* expression, so they fail on an exception only; every category the
\* dispatch does not name goes to _solve_general.
SolveByType(problem_type, expressions, outcome) ==
    LET given == IF problem_type = "equation"
                 THEN \E k \in DOMAIN expressions : HasEquals(expressions[k])
                 ELSE expressions # <<>>
        raises == given /\ outcome = "raises"
        found == given /\ outcome = "solved"
        kept == given /\ outcome # "raises"
    IN IF problem_type = "equation" THEN
           IF raises THEN [success |-> FALSE, error |-> "Equation solving error: fault"]
           ELSE IF found THEN [success |-> TRUE, error |-> ""]
           ELSE [success |-> FALSE, error |-> "Could not find solutions to the equation(s)"]
       ELSE IF problem_type = "derivative" THEN
           IF raises THEN [success |-> FALSE, error |-> "Derivative calculation error: fault"]
           ELSE IF found THEN [success |-> TRUE, error |-> ""]
           ELSE [success |-> FALSE, error |-> "Could not compute derivatives"]
       ELSE IF problem_type = "integral" THEN
           IF raises THEN [success |-> FALSE, error |-> "Integral calculation error: fault"]
           ELSE IF found THEN [success |-> TRUE, error |-> ""]
           ELSE [success |-> FALSE, error |-> "Could not compute integrals"]
       ELSE IF problem_type = "limit" THEN
           [success |-> FALSE, error |-> "Limit solving not yet implemented"]
       ELSE IF problem_type = "matrix" THEN
           [success |-> FALSE, error |-> "Matrix solving not yet implemented"]
       ELSE IF problem_type = "simplify" THEN
           IF raises THEN [success |-> FALSE, error |-> "Simplification error: fault"]
           ELSE IF kept THEN [success |-> TRUE, error |-> ""]
           ELSE [success |-> FALSE, error |-> "Could not simplify expressions"]
       ELSE IF problem_type = "optimization" THEN
           [success |-> FALSE, error |-> "Optimization solving not yet implemented"]
       ELSE IF raises THEN [success |-> FALSE, error |-> "General solving error: fault"]
       ELSE IF kept THEN [success |-> TRUE, error |-> ""]
       ELSE [success |-> FALSE, error |-> "Could not solve the general problem"]

\* _create_error_result, lines 531-546
CreateErrorResult(error_message, original_text, file_name) ==
    [success |-> FALSE, problem_type |-> "unknown", original_text |-> original_text,
     solution |-> "", steps |-> <<>>, error_message |-> error_message,
     file_name |-> file_name]

\* lines 76 and 133: the body of solve_problem is inside try, and the handler
\* takes every Exception
SolverErrorCaught_mut == FALSE
SolverErrorCaught == TRUE

\* solve_problem, lines 63-139: what it returns.  fault: an exception is
\* raised somewhere in the body and reaches the handler of line 133.
SolveProblem(tx, file_name, outcome, fault) ==
    IF fault THEN CreateErrorResult("Unexpected error: fault", tx, file_name)
    ELSE IF ~ValidateMathematicalContentText(tx).is_valid THEN
        CreateErrorResult("Content does not appear to be a mathematical problem",
                          tx, file_name)
    ELSE IF ExtractExpressions(tx) = <<>> THEN
        CreateErrorResult("Could not extract mathematical expressions from the problem",
                          tx, file_name)
    ELSE LET solution_result ==
                 SolveByType(IdentifyProblemType(tx), ExtractExpressions(tx), outcome)
         IN [success |-> solution_result.success,
             problem_type |-> IdentifyProblemType(tx),
             original_text |-> tx,
             expressions |-> ExtractExpressions(tx),
             error_message |-> solution_result.error,
             file_name |-> file_name]

\* _identify_problem_type is called on the text
Classify ==
    /\ verdict = <<>>
    /\ verdict' = <<[op |-> "classify", problem_type |-> IdentifyProblemType(text)]>>
    /\ UNCHANGED <<callbacks, text, is_running, stats, sched, last_check_time, commits,
                   now, pc, loc, hist, repository>>

\* _extract_expressions is called on the text
Extract ==
    /\ verdict = <<>>
    /\ verdict' = <<[op |-> "extract", candidates |-> Candidates(text),
                     expressions |-> ExtractExpressions(text)]>>
    /\ UNCHANGED <<callbacks, text, is_running, stats, sched, last_check_time, commits,
                   now, pc, loc, hist, repository>>

\* solve_problem is called on the text (test_system.py line 178, app.py line
\* 234): it returns its result, or the exception of the body leaves it when
\* the handler of line 133 does not take it
SolveProblemCall(file_name, outcome, fault) ==
    /\ verdict = <<>>
    /\ verdict' =
         IF fault /\ ~SolverErrorCaught
         THEN <<[op |-> "solve_problem", raised |-> TRUE, solution_result |-> <<>>]>>
         ELSE <<[op |-> "solve_problem", raised |-> FALSE,
                 solution_result |-> <<SolveProblem(text, file_name, outcome, fault)>>]>>
    /\ UNCHANGED <<callbacks, text, is_running, stats, sched, last_check_time, commits,
                   now, pc, loc, hist, repository>>

\* process_single_problem on the text extracted from an item,
\* scheduler_service.py lines 271-289: without a text it returns at lines
\* 273-278 and solve_problem is not called; with one it calls solve_problem
\* and returns at once when the result is no success.  An exception that
\* leaves solve_problem reaches the handler of lines 332-340.
\* solution_result holds the result of the call of solve_problem, if one was
\* made and returned; returned holds the dictionary process_single_problem
\* returns at these lines, if it does.
Solve(file_name, outcome, fault) ==
    /\ verdict = <<>>
    /\ LET solution_result == SolveProblem(text, file_name, outcome, fault)
       IN verdict' =
            IF text = <<>> THEN
                <<[op |-> "solve", raised |-> FALSE, solution_result |-> <<>>,
                   returned |-> <<[success |-> FALSE, file_name |-> file_name,
                                   error |-> "Could not extract text content from file"]>>]>>
            ELSE IF fault /\ ~SolverErrorCaught THEN
                <<[op |-> "solve", raised |-> TRUE, solution_result |-> <<>>,
                   returned |-> <<ProcessingError(file_name)>>]>>
            ELSE
                <<[op |-> "solve", raised |-> FALSE,
                   solution_result |-> <<solution_result>>,
                   returned |-> IF solution_result.success THEN <<>>
                                ELSE <<SolveFailureItem(file_name, solution_result)>>]>>
    /\ UNCHANGED <<callbacks, text, is_running, stats, sched, last_check_time, commits,
                   now, pc, loc, hist, repository>>

\* ---------------------------------------------------------------- status
\* what the environment does to the liveness probes
RemoteStates == {"ok", "error"}
EmailStates == {"configured", "unconfigured", "error"}

\* GitHubService.get_repository_stats: every Exception of the remote call
\* is caught and an empty dictionary returned
GetRepositoryStats(remote) ==
    [raised |-> FALSE, value |-> IF remote = "ok" THEN "stats" ELSE "empty"]

\* _check_github_status, lines 492-498: True unless the call raised
CheckGithubStatus(remote) == ~GetRepositoryStats(remote).raised

\* _check_email_status, lines 500-505: is_configured(), False when it raises
CheckEmailStatus(email) == IF email = "error" THEN FALSE ELSE email = "configured"

\* _get_next_run_time, lines 484-490, as far as it is told apart here: the
\* next run time of the job the scheduler lists, None when it lists none
NextRunTime(sch) == IF sch.job /\ sch.started THEN "scheduled" ELSE "None"

\* the dictionary get_status returns, lines 466-476, from the values it read
Status(read, remote, email) ==
    [is_running |-> read.is_running,
     next_run |-> read.next_run,
     stats |-> read.stats,
     services_status |-> [github |-> CheckGithubStatus(remote),
                          email |-> CheckEmailStatus(email),
                          math_solver |-> TRUE]]

\* get_status, called by thread t; line 467: is_running is read
GetStatus(t) ==
    /\ pc[t] = "idle"
    /\ pc' = [pc EXCEPT ![t] = "status_next"]
    /\ loc' = [loc EXCEPT ![t] =
                  [NoLocals EXCEPT !.origin = "status",
                                   !.status.is_running = is_running]]
    /\ UNCHANGED <<registry, repository, is_running, stats, sched, last_check_time, commits, now, hist>>

\* _get_next_run_time, line 480: is_running is read again; None is returned
\* when it is false
StatusNextRun(t) ==
    /\ pc[t] = "status_next"
    /\ pc' = [pc EXCEPT ![t] = IF is_running THEN "status_jobs" ELSE "status_stats"]
    /\ UNCHANGED <<registry, repository, is_running, stats, sched, last_check_time, commits, now,
                   loc, hist>>

\* _get_next_run_time, lines 484-486: the scheduler lists its jobs
StatusJobs(t) ==
    /\ pc[t] = "status_jobs"
    /\ loc' = [loc EXCEPT ![t].status.next_run = NextRunTime(sched)]
    /\ pc' = [pc EXCEPT ![t] = "status_stats"]
    /\ UNCHANGED <<registry, repository, is_running, stats, sched, last_check_time, commits, now, hist>>

\* get_stats, line 457: the statistics are copied
StatusStats(t) ==
    /\ pc[t] = "status_stats"
    /\ loc' = [loc EXCEPT ![t].status.stats = stats]
    /\ pc' = [pc EXCEPT ![t] = "status_probe"]
    /\ UNCHANGED <<registry, repository, is_running, stats, sched, last_check_time, commits, now, hist>>

\* lines 471-476: the probes meet `remote` and `email`, and the dictionary
\* is returned
StatusProbes(t, remote, email) ==
    /\ pc[t] = "status_probe"
    /\ pc' = [pc EXCEPT ![t] = "returned"]
    /\ loc' = [loc EXCEPT
                  ![t].calls = <<[op |-> "get_repository_stats", outcome |-> remote],
                                 [op |-> "is_configured", outcome |-> email]>>,
                  ![t].summary = <<Status(loc[t].status, remote, email)>>]
    /\ UNCHANGED <<registry, repository, is_running, stats, sched, last_check_time, commits, now, hist>>

\* --------------------------------------------------------- the environment
\* somebody pushes a commit that adds or modifies a file of the upload folder
Commit(max, files) ==
    /\ Len(commits) < max
    /\ \E f \in files : commits' = Append(commits, [date |-> now, file |-> f])
    /\ UNCHANGED <<registry, repository, is_running, stats, sched, last_check_time, now, pc, loc, hist>>

\* time passes
Advance ==
    /\ now < MaxClock
    /\ now' = now + 1
    /\ UNCHANGED <<registry, repository, is_running, stats, sched, last_check_time, commits, pc, loc, hist>>

\* the three ways an item can end that the statistics tell apart: success,
\* a negative result, an exception
CoarseFates ==
    {[step |-> 0, how |-> "ok", also |-> {}], [step |-> 2, how |-> "false", also |-> {}],
     [step |-> 6, how |-> "raise", also |-> {}]}

\* the body of check_and_process_new_problems, as executed by thread t
RunBody(t, fates) ==
    \/ RunStart(t) \/ RunRead(t) \/ RunCount(t) \/ RunStamp(t)
    \/ DiscoverSince(t) \/ DiscoverNow(t) \/ Discover(t) \/ DiscoverRaises(t)
    \/ FailCount(t) \/ FailError(t)
    \/ WatermarkRead(t) \/ DiscoverDoneEmpty(t) \/ DiscoverDoneFiles(t)
    \/ NewProblem(t) \/ Item(t, fates) \/ ItemCheck(t) \/ ItemStore(t) \/ ItemCreate(t)
    \/ ItemDone(t)
    \/ ItemRead(t) \/ ItemCount(t) \/ ItemEvent(t)
    \/ Final(t) \/ FinalCount(t) \/ FinalStamp(t) \/ Return(t)

\* start_scheduler while stopped, as executed by thread t
StartBody(t) ==
    \/ StartScheduler(t) \/ StartAddJob(t) \/ StartStart(t) \/ StartFlag(t) \/ StartEager(t)

\* stop_scheduler while running, as executed by thread t
StopBody(t) ==
    StopScheduler(t) \/ StopShutdown(t) \/ StopDone(t)

\* The service in its process: the owning thread starts and stops it and
\* triggers runs, a request thread triggers runs, the pool threads run the job.
Next ==
    \/ \E t \in Threads :
         \/ StartBody(t) \/ StartWhileRunning(t, FALSE)
         \/ StopBody(t) \/ StopWhileStopped(t, FALSE)
         \/ ManualTrigger(t, FALSE) \/ TickRun(t, MaxRuns)
         \/ RunBody(t, CoarseFates)
    \/ TickSkipped
    \/ Commit(MaxCommitsItem, {"p1.txt"})
    \/ Advance

Spec == Init /\ [][Next]_vars

\* Two callers at once (the owning thread and a request thread both call
\* manual_trigger) over two commits, within one tick of the clock: the
\* statistics and the solutions folder under concurrent runs.
NextConc ==
    \/ \E t \in Callers : ManualTrigger(t, FALSE) \/ RunBody(t, CoarseFates)
    \/ Commit(MaxCommitsConc, {"p1.txt"})

SpecConc == Init /\ [][NextConc]_vars

\* One caller, one call after the other (the `trigger` command line): the
\* contract of check_and_process_new_problems itself.
NextSeq ==
    \/ ManualTrigger("main", TRUE)
    \/ RunBody("main", CoarseFates)
    \/ Commit(MaxCommits, {"p1.txt"})
    \/ Advance

SpecSeq == Init /\ [][NextSeq]_vars

\* One caller again, over every fate of an item and every file: the contract
\* of process_single_problem inside the loop.
NextItem ==
    \/ ManualTrigger("main", TRUE)
    \/ RunBody("main", Fates)
    \/ Commit(MaxCommitsItem, Files)
    \/ Advance

SpecItem == Init /\ [][NextItem]_vars

\* One caller that registers callbacks, some of which raise, between its runs.
NextCb ==
    \/ \E e \in Events, b \in Behaviours : AddCallback("main", e, b)
    \/ ManualTrigger("main", TRUE)
    \/ RunBody("main", CoarseFates)
    \/ Commit(MaxCommits, {"p1.txt"})

SpecCb == Init /\ [][NextCb]_vars

\* A caller's runs while a request thread registers callbacks and time passes.
NextCbConc ==
    \/ \E e \in Events, b \in Behaviours : AddCallback("http", e, b)
    \/ ManualTrigger("main", FALSE)
    \/ RunBody("main", CoarseFates)
    \/ Commit(MaxCommitsItem, {"p1.txt"})
    \/ Advance

SpecCbConc == Init /\ [][NextCbConc]_vars

\* The periodic job alone: the owning thread starts the scheduler (and makes
\* the eager call), the interval trigger fires, the pool threads run the job.
NextSched ==
    \/ StartBody("main") \/ StartWhileRunning("main", FALSE)
    \/ \E t \in Workers : TickRun(t, MaxRunsSched)
    \/ \E t \in Workers \cup {"main"} : RunBody(t, CoarseFates)
    \/ TickSkipped
    \/ Commit(MaxCommitsItem, {"p1.txt"})

SpecSched == Init /\ [][NextSched]_vars

\* The validator on its own, over every text of the vocabulary.
InitValidator == InitService /\ text \in TextsUpTo(MaxTextLen)

NextValidator == ValidateText \/ ValidateFile

SpecValidator == InitValidator /\ [][NextValidator]_vars

\* The relevance score on its own.
InitScore ==
    InitService /\ text \in TextsOver([word : ScoreVocabulary, case : Cases], MaxScoreLen)

SpecScore == InitScore /\ [][CalculateScore]_vars

\* The solver on its own: a text is classified, searched for expressions or
\* solved.
InitSolver ==
    InitService /\ text \in TextsOver([word : SolverVocabulary, case : {"lower"}], MaxSolverLen)

NextSolver ==
    \/ Classify
    \/ Extract
    \/ \E file_name \in Files, outcome \in Outcomes, fault \in BOOLEAN :
          SolveProblemCall(file_name, outcome, fault)
    \/ \E file_name \in Files, outcome \in Outcomes, fault \in BOOLEAN :
          Solve(file_name, outcome, fault)

SpecSolver == InitSolver /\ [][NextSolver]_vars

\* Status queries of a request thread beside the owning thread's runs.
NextStatus ==
    \/ GetStatus("http") \/ StatusNextRun("http") \/ StatusJobs("http") \/ StatusStats("http")
    \/ \E r \in RemoteStates, m \in EmailStates : StatusProbes("http", r, m)
    \/ Return("http")
    \/ StartBody("main")
    \/ ManualTrigger("main", TRUE)
    \/ RunBody("main", CoarseFates)
    \/ Commit(MaxCommitsItem, {"p1.txt"})

SpecStatus == Init /\ [][NextStatus]_vars

\* The life cycle: the owning thread starts and stops the scheduler, again and
\* again, while the job runs on the pool and a request thread triggers runs.
NextLife ==
    \/ StartBody("main") \/ StartWhileRunning("main", TRUE)
    \/ StopBody("main") \/ StopWhileStopped("main", TRUE)
    \/ ManualTrigger("http", FALSE)
    \/ \E t \in Workers : TickRun(t, MaxRuns)
    \/ \E t \in Threads : RunBody(t, CoarseFates)
    \/ TickSkipped
    \/ Commit(MaxCommitsItem, {"p1.txt"})

SpecLife == Init /\ [][NextLife]_vars

\* ================================================================ claims
Counters ==
    {"total_runs", "successful_runs", "failed_runs", "problems_solved",
     "problems_failed"}

\* thread t has just returned from check_and_process_new_problems
Returned(t) == pc[t] = "returned"

\* the summary it returned
Summary(t) == loc[t].summary[1]

\* the call of thread t that returned got n items from discovery
Discovered(t, n) == Returned(t) /\ Summary(t).success /\ Len(loc[t].new_files) = n

\* C1: at every moment at most one execution of the run body is active.
\* (Stated as the claim states it; the code has no run-in-progress flag.)
C1_AtMostOneActiveRun == Cardinality(ActiveRuns) <= 1

\* C2 as claimed: a tick that fires while a run is executing starts no run
\* and is not queued: the periodic trigger never has two instances executing,
\* and it has started no more runs than ticks fired while no run was active.
\* (max_instances only counts the instances of the periodic job, so a tick
\* that fires during the run of start_scheduler or of manual_trigger starts
\* a run.)
C2_TicksCoalesced ==
    /\ Cardinality(RunningInstances) <= 1
    /\ hist.sched_runs <= hist.free_ticks

\* C3 as claimed: whatever n is, the summary of a run that discovered n items
\* has a results list of n entries and processed + errors = n.  (The return
\* of lines 147-155, taken when nothing was discovered, builds a summary
\* without a results list.)
C3_ResultsListAlways ==
    \A t \in Threads :
        (Returned(t) /\ Summary(t).success) =>
            /\ "results" \in DOMAIN Summary(t)
            /\ Len(Summary(t).results) = Len(loc[t].new_files)
            /\ Summary(t).processed + Summary(t).errors = Len(loc[t].new_files)

\* C4: a run that discovers nothing returns success, processed = 0, errors = 0
\* and counts as one run and one successful run, the other counters unchanged.
C4_EmptyRunCounted ==
    \A t \in Threads :
        Discovered(t, 0) =>
            /\ Summary(t).processed = 0 /\ Summary(t).errors = 0
            /\ stats.total_runs = loc[t].snap.total_runs + 1
            /\ stats.successful_runs = loc[t].snap.successful_runs + 1
            /\ stats.failed_runs = loc[t].snap.failed_runs
            /\ stats.problems_solved = loc[t].snap.problems_solved
            /\ stats.problems_failed = loc[t].snap.problems_failed

\* C5: when discovery raises, the run processes no item and fires no
\* callback, failed_runs grows by exactly 1, last_error is the error text,
\* successful_runs, last_success, problems_solved and problems_failed are
\* unchanged, and a summary with success = false is returned.
C5_DiscoveryFailure ==
    \A t \in Threads :
        (Returned(t) /\ ~Summary(t).success) =>
            /\ loc[t].results = <<>> /\ loc[t].calls = <<>> /\ loc[t].fired = <<>>
            /\ stats.failed_runs = loc[t].snap.failed_runs + 1
            /\ stats.last_error = Summary(t).error
            /\ stats.last_error # NoError
            /\ stats.successful_runs = loc[t].snap.successful_runs
            /\ stats.last_success = loc[t].snap.last_success
            /\ stats.problems_solved = loc[t].snap.problems_solved
            /\ stats.problems_failed = loc[t].snap.problems_failed

\* discovery raised although a commit was there to be found
C5_Witness ==
    \E t \in Threads :
        /\ Returned(t) /\ ~Summary(t).success
        /\ NewFilesSince(commits, loc[t].run_start_time) # <<>>

\* C6: after a run whose discovery succeeded, problems_solved has grown by the
\* run's processed count and problems_failed by its error count; with an item
\* error failed_runs (not successful_runs) has grown by 1, with items and no
\* item error successful_runs (not failed_runs) has grown by 1.
C6_ItemAccounting ==
    \A t \in Threads :
        (Returned(t) /\ Summary(t).success) =>
            LET sm == Summary(t)
                s0 == loc[t].snap
            IN /\ stats.problems_solved = s0.problems_solved + sm.processed
               /\ stats.problems_failed = s0.problems_failed + sm.errors
               /\ sm.errors >= 1 =>
                    /\ stats.failed_runs = s0.failed_runs + 1
                    /\ stats.successful_runs = s0.successful_runs
               /\ (sm.new_files >= 1 /\ sm.errors = 0) =>
                    /\ stats.successful_runs = s0.successful_runs + 1
                    /\ stats.failed_runs = s0.failed_runs

\* a run of two items, one solved and one failed
C6_Witness ==
    \E t \in Threads :
        /\ Discovered(t, 2)
        /\ Summary(t).processed = 1 /\ Summary(t).errors = 1

\* C7: after a run with zero item errors (a run that discovered nothing
\* included) last_success is the run's start time; a run with an item error
\* or a discovery failure leaves last_success unchanged.
C7_LastSuccess ==
    \A t \in Threads :
        Returned(t) =>
            IF Summary(t).success /\ Summary(t).errors = 0
            THEN stats.last_success = loc[t].run_start_time
            ELSE stats.last_success = loc[t].snap.last_success

\* C8: the counters are non-negative and no step decreases one.
C8_CountersMonotonic ==
    [][\A k \in Counters : stats[k] >= 0 /\ stats'[k] >= stats[k]]_vars

\* C9: no increment is lost: with no run in flight, total_runs is the number
\* of runs started and problems_solved / problems_failed are the sums of the
\* runs' processed / error counts.
C9_NoLostUpdate ==
    (\A t \in Threads : pc[t] = "idle") =>
        /\ stats.total_runs = hist.started
        /\ stats.problems_solved = hist.sum_processed
        /\ stats.problems_failed = hist.sum_errors

\* upload, index update or notification did not succeed for an item
DeliveryFailed(calls) ==
    \E k \in 1..Len(calls) :
        /\ calls[k].op \in {"upload_solution", "update_main_page",
                            "send_solution_notification"}
        /\ calls[k].outcome # "ok"

\* C10: an item whose solve succeeded and whose upload, index update or
\* notification failed is a per-item failure (success = false, on_error
\* fired, counted in errors) and its result still carries the solve result.
C10_DeliveryFailureFailsItem ==
    \A t \in Threads :
        Returned(t) =>
            \A k \in 1..Len(loc[t].results) :
                DeliveryFailed(loc[t].calls[k]) =>
                    /\ ~loc[t].results[k].success
                    /\ "solution_data" \in DOMAIN loc[t].results[k]
                    /\ \E e \in 1..Len(loc[t].fired) : loc[t].fired[e] = <<"on_error", k>>
                    /\ Summary(t).errors >= 1

\* C11: in a run whose discovery succeeded, every item fires on_new_problem
\* exactly once, before its download, and afterwards exactly one terminal
\* event, once: on_solution_complete if and only if the item's result has
\* success = true, on_error otherwise.
C11_CallbackProtocol ==
    \A t \in Threads :
        (Returned(t) /\ Summary(t).success) =>
            LET n == Len(loc[t].new_files)
                l == loc[t]
            IN /\ Len(l.fired) = 2 * n
               /\ \A k \in 1..n :
                    /\ l.fired[2 * k - 1] = <<"on_new_problem", k>>
                    /\ l.fired[2 * k] =
                         <<IF l.results[k].success THEN "on_solution_complete"
                           ELSE "on_error", k>>
                    /\ l.trace[k][1] = "on_new_problem"
                    /\ l.trace[k][2] = "download_file"
                    /\ \A j \in 2..Len(l.trace[k]) : l.trace[k][j] # "on_new_problem"

\* two items, one failed safety validation and one solved: on_error fired
\* once and on_solution_complete once
C11_Witness ==
    \E t \in Threads :
        /\ Discovered(t, 2)
        /\ \E k \in 1..2 :
             /\ ~loc[t].results[k].success
             /\ loc[t].results[k].error = "File safety validation failed"
             /\ loc[t].results[3 - k].success
        /\ Cardinality({e \in 1..Len(loc[t].fired) : loc[t].fired[e][1] = "on_error"}) = 1
        /\ Cardinality({e \in 1..Len(loc[t].fired) :
                          loc[t].fired[e][1] = "on_solution_complete"}) = 1

\* the checked calls of an item all succeeded
ChecksPassed(calls) ==
    /\ Len(calls) >= 1
    /\ \A j \in 1..Len(calls) : ReturnValueChecked(j) => calls[j].outcome = "ok"

\* C12: a callback that raises changes nothing: in a run that discovered
\* n >= 1 items every callback registered for an event was called each time
\* the event fired, each item has one result, decided by its collaborator
\* calls alone, the counters have grown by the run's counts, and the run
\* returned its n results.
C12_CallbackErrorsContained ==
    \A t \in Threads :
        (Returned(t) /\ Len(loc[t].new_files) >= 1) =>
            LET n == Len(loc[t].new_files)
                l == loc[t]
            IN /\ Summary(t).success
               /\ Len(l.results) = n /\ Len(l.fired) = 2 * n /\ Len(l.ran) = 2 * n
               /\ \A e \in 1..(2 * n) : l.ran[e] = Len(callbacks[l.fired[e][1]])
               /\ \A k \in 1..n : l.results[k].success = ChecksPassed(l.calls[k])
               /\ Summary(t).processed + Summary(t).errors = n
               /\ stats.problems_solved = l.snap.problems_solved + Summary(t).processed
               /\ stats.problems_failed = l.snap.problems_failed + Summary(t).errors

\* a run of two items in which a raising callback was registered before
\* another one for an event that fired, and the second item was solved
C12_Witness ==
    \E t \in Threads :
        /\ Discovered(t, 2)
        /\ \E e \in Events : callbacks[e] = <<"raise", "ok">>
                              /\ \E k \in 1..4 : loc[t].fired[k][1] = e
        /\ loc[t].results[2].success

\* C13: when start_scheduler, called while stopped, returns, the periodic job
\* is registered, is_running is true, and exactly one eager run has been made
\* (total_runs is at least 1).
C13_StartRunsEagerly ==
    (Returned("main") /\ loc["main"].origin = "eager") =>
        /\ sched.job /\ sched.started
        /\ is_running
        /\ hist.started - hist.sched_runs = 1
        /\ stats.total_runs >= 1

\* start_scheduler is about to return, its eager run has processed an item
C13_Witness ==
    /\ Returned("main") /\ loc["main"].origin = "eager"
    /\ Summary("main").success /\ Summary("main").new_files = 1

\* C14: start_scheduler while running and stop_scheduler while stopped change
\* nothing: is_running, the statistics, the scheduler and its job, and every
\* thread's position are as before, and no run has started.
C14_NoOps ==
    [][hist'.noops # hist.noops =>
          /\ is_running' = is_running /\ stats' = stats /\ sched' = sched
          /\ pc' = pc /\ loc' = loc
          /\ hist'.started = hist.started]_vars

\* both no-op calls have been made, start_scheduler's while a job ran
C14_Witness ==
    /\ hist.noops.start /\ hist.noops.stop
    /\ hist.started >= 1

\* C15: when stop_scheduler, called while running, returns, is_running is
\* false, the periodic trigger is off and no run is executing in any thread.
C15_StopWaitsForRuns ==
    [][(pc["main"] = "stop_wait" /\ pc'["main"] = "idle") =>
          /\ ~is_running'
          /\ ~sched'.started
          /\ ActiveRuns' = {}]_vars

\* C16: a run never raises (its caller gets a summary), and a failed run
\* leaves the periodic job in place: while the scheduler is running the job
\* is registered and the trigger on, and a tick that finds no instance
\* executing starts a run.
C16_ScheduleSurvivesFailure ==
    /\ \A t \in Threads : Returned(t) => Len(loc[t].summary) = 1
    /\ is_running => (sched.job /\ sched.started)
    /\ (is_running /\ RunningInstances = {} /\ hist.started + EagerRunAhead < MaxRunsSched) =>
          ENABLED (\E t \in Workers : TickRun(t, MaxRunsSched))

\* two runs have failed and are over, and a tick has started a third
C16_Witness ==
    /\ stats.failed_runs = 2 /\ hist.finished = 2
    /\ hist.started = 3
    /\ \E t \in Workers : pc[t] = "run_start"

\* C17: within one run no file is processed more than once: the items of a
\* run have pairwise different names.
C17_NoDuplicateItems ==
    \A t \in Threads :
        \A j, k \in 1..Len(loc[t].new_files) :
            loc[t].new_files[j].name = loc[t].new_files[k].name => j = k

\* C18: the first discovery call of the process (no check recorded yet)
\* queries a window that starts one hour before the call; every later call
\* queries from the watermark the previous successful call recorded.
C18_FirstWindowOneHour ==
    \A t \in Threads :
        pc[t] = "listing" =>
            IF last_check_time = None
            THEN loc[t].since <= now - Hour
            ELSE loc[t].since = last_check_time

\* C19: get_status returns (never raises), and a collaborator whose probe
\* failed is reported as unavailable: services_status.github is false when
\* the remote-store call errored, services_status.email is false when the
\* e-mail check errored.
C19_ProbeFailureReported ==
    \A t \in Threads :
        (Returned(t) /\ loc[t].origin = "status") =>
            /\ Len(loc[t].summary) = 1
            /\ loc[t].calls[1].outcome = "error" => ~Summary(t).services_status.github
            /\ loc[t].calls[2].outcome = "error" => ~Summary(t).services_status.email

\* C20: a text that holds a forbidden keyword, in whatever letter case, is
\* never valid, and is rejected as inappropriate whatever its score; a text
\* whose score is below 0.1 is never valid.
C20_ForbiddenNeverValid ==
    verdict # <<>> =>
        /\ (\E k \in DOMAIN text : text[k].word \in forbidden_keywords) =>
              /\ ~verdict[1].is_valid
              /\ verdict[1].reason \in {"Text contains inappropriate content",
                                        "File contains inappropriate content"}
        /\ ScoreBelowThreshold(text) => ~verdict[1].is_valid

\* a text of full score with a forbidden word in capitals was rejected
C20_Witness ==
    /\ verdict # <<>>
    /\ Len(text) = 2
    /\ text[1] = [word |-> "solve", case |-> "lower"]
    /\ text[2] = [word |-> "hack", case |-> "upper"]
    /\ ~ScoreBelowThreshold(text)
    /\ ~verdict[1].is_valid

\* C21: the score of every text lies in [0, 1]; it is 0 for the empty text
\* and for a text without words, and otherwise
\* min(weighted_hits / (word_count * 0.5), 1.0), with weighted_hits >= 0.
C21_ScoreInUnitInterval ==
    verdict # <<>> =>
        LET sc == verdict[1].score
            hits10 == TotalScore10(text)
            max10 == 5 * TotalWords(text)
        IN /\ sc.den > 0 /\ 0 <= sc.num /\ sc.num <= sc.den
           /\ hits10 >= 0
           /\ (Len(text) = 0 \/ TotalWords(text) = 0) => sc.num = 0
           /\ TotalWords(text) > 0 =>
                IF hits10 >= max10 THEN sc.num = sc.den
                ELSE sc.num * max10 = hits10 * sc.den

\* a text of one keyword among four words scored 0.75, below the cap
C21_Witness ==
    /\ verdict # <<>>
    /\ Len(text) = 4
    /\ verdict[1].score = [num |-> 15, den |-> 20]

\* the texts made of the pieces of tx in another order
Reorderings(tx) ==
    {[k \in DOMAIN tx |-> tx[p[k]]] :
        p \in {q \in [DOMAIN tx -> DOMAIN tx] : \A i, j \in DOMAIN tx : q[i] = q[j] => i = j}}

\* C22: a text that holds an equation cue (an instruction verb and an '='
\* sign) and a derivative cue is given the same category in whatever order
\* the cues appear.
C22_ClassificationOrderIndependent ==
    (/\ verdict # <<>>
     /\ verdict[1].op = "classify"
     /\ \E i \in DOMAIN text : text[i].word \in PatternCues("equation")
     /\ \E i \in DOMAIN text : HasEquals(text[i].word)
     /\ \E i \in DOMAIN text : text[i].word \in PatternCues("derivative"))
    => \A other \in Reorderings(text) :
          IdentifyProblemType(other) = verdict[1].problem_type

\* the index at which str first occurs in the list
FirstIndex(list, str) == CHOOSE i \in DOMAIN list : list[i] = str /\ \A j \in 1..(i - 1) : list[j] # str

\* C23: the list _extract_expressions returns holds no string twice, holds
\* every candidate collected, and its elements are in the order of their
\* first occurrence among the candidates.
C23_ExpressionsUniqueInOrder ==
    (verdict # <<>> /\ verdict[1].op = "extract") =>
        LET candidates == verdict[1].candidates
            expressions == verdict[1].expressions
        IN /\ \A i, j \in DOMAIN expressions : expressions[i] = expressions[j] => i = j
           /\ {expressions[i] : i \in DOMAIN expressions}
                = {candidates[i] : i \in DOMAIN candidates}
           /\ \A i, j \in DOMAIN expressions :
                i < j => FirstIndex(candidates, expressions[i])
                           < FirstIndex(candidates, expressions[j])

\* two different expressions were returned from candidates that held one of
\* them more than once
C23_Witness ==
    /\ verdict # <<>>
    /\ verdict[1].op = "extract"
    /\ Len(verdict[1].expressions) >= 2
    /\ Len(verdict[1].candidates) > Len(verdict[1].expressions)

\* C24: solve_problem raises for no text, and every failure is returned with
\* success false and a non-empty error_message; when the scheduler calls it
\* no exception reaches the scheduler, and on such a result the scheduler
\* returns a failure of the item that carries this message.
C24_SolverFailuresReported ==
    /\ (verdict # <<>> /\ verdict[1].op = "solve_problem") =>
          /\ ~verdict[1].raised
          /\ Len(verdict[1].solution_result) = 1
          /\ ~verdict[1].solution_result[1].success =>
                verdict[1].solution_result[1].error_message # ""
    /\ (verdict # <<>> /\ verdict[1].op = "solve" /\ text # <<>>) =>
          /\ ~verdict[1].raised
          /\ Len(verdict[1].solution_result) = 1
          /\ ~verdict[1].solution_result[1].success =>
                /\ verdict[1].solution_result[1].error_message # ""
                /\ Len(verdict[1].returned) = 1
                /\ ~verdict[1].returned[1].success
                /\ verdict[1].returned[1].error
                     = verdict[1].solution_result[1].error_message
                /\ verdict[1].returned[1].solution_attempt
                     = verdict[1].solution_result[1]

\* an exception was raised in the body of solve_problem while the scheduler
\* had called it on a text that passes the validator: the result says so and
\* the item failed with its message
C24_Witness ==
    /\ verdict # <<>>
    /\ verdict[1].op = "solve"
    /\ ValidateMathematicalContentText(text).is_valid
    /\ ~verdict[1].raised
    /\ verdict[1].solution_result # <<>>
    /\ ~verdict[1].solution_result[1].success
    /\ verdict[1].solution_result[1].error_message = "Unexpected error: fault"
    /\ verdict[1].returned # <<>>
    /\ verdict[1].returned[1].error = "Unexpected error: fault"

\* C27: when the equation pattern yields nothing, the result holds the
\* candidates of the first fallback pattern that yields one and nothing of
\* the later patterns.
C27_FallbackStopsAtFirst ==
    (/\ verdict # <<>>
     /\ verdict[1].op = "extract"
     /\ MatchesFrom("equation", RemoveInstructionWords(text), 1) = <<>>
     /\ verdict[1].expressions # <<>>)
    => \E k \in DOMAIN fallback_patterns :
          LET yield(n) == MatchesFrom(fallback_patterns[n], RemoveInstructionWords(text), 1)
          IN /\ yield(k) # <<>>
             /\ \A n \in 1..(k - 1) : yield(n) = <<>>
             /\ \A i \in DOMAIN verdict[1].expressions :
                  \E j \in DOMAIN yield(k) : verdict[1].expressions[i] = yield(k)[j]

\* C25: publishing is idempotent per problem: however often a solution of
\* a problem file is uploaded, the repository holds at most one solution
\* file for it.
C25_OneSolutionPerProblem ==
    \A problem_file \in Files :
        Cardinality({path \in published : path.name = Stem(problem_file)}) <= 1

\* C30: for every item that ended with success, the solution_url given to
\* the index page and the notification is the path at which upload_solution
\* stored the solution while the item was processed.
C30_SolutionUrlIsStoredPath ==
    \A t \in Threads : \A k \in DOMAIN loc[t].results :
        LET result == loc[t].results[k]
        IN result.success =>
             /\ result.solution_info.solution_url \in published
             /\ result.solution_info.solution_url
                  = SolutionPath(result.file_name, result.solution_info.solution_url.timestamp)

\* C26: the calls made for an item are download, validate_file_safety,
\* validate_mathematical_content, text extraction, solve, upload, index
\* update, notification, in this order, and a call is made only if every
\* earlier call succeeded.
C26_GateOrder ==
    \A t \in Threads : \A n \in DOMAIN loc[t].calls :
        LET calls == loc[t].calls[n]
        IN /\ Len(calls) <= Len(Steps)
           /\ \A k \in DOMAIN calls :
                /\ calls[k].op = Steps[k]
                /\ \A j \in 1..(k - 1) : calls[j].outcome = "ok"

\* C28: whenever no run is in flight, total_runs = successful_runs +
\* failed_runs: every completed run is counted in exactly one of the two
\* outcome counters.
C28_RunAccounting ==
    ActiveRuns = {} => stats.total_runs = stats.successful_runs + stats.failed_runs

\* C29: no item is lost by the watermark.  A call only returns commits
\* dated at or after last_check_time, and last_check_time never goes back,
\* so a commit dated before it that no call has returned will be returned
\* by no later call: there is no such commit.
C29_NoItemLost ==
    last_check_time # None =>
        \A k \in DOMAIN commits :
            commits[k].date < last_check_time => k \in hist.returned

====
